---- MODULE Spec2Model ----
(***************************************************************************)
(* pingmeter (src/main.go): a loop that re-reads a target file, pings the  *)
(* listed hosts in one batch and feeds the outcomes to Prometheus vectors. *)
(*                                                                         *)
(* Host names and file contents are sequences of bytes (one-character      *)
(* strings).  Durations are integer nanoseconds, as time.Duration is.      *)
(* Modification times are integers; 0 is the zero time.Time.               *)
(***************************************************************************)
EXTENDS Integers, Sequences, FiniteSets, TLC

\* ---------------------------------------------------------------- bounds
\* Longest target file, in bytes.
MaxFileLen == 3
\* Latest modification time the file system reports.
MaxMtime == 2
\* Number of batches pingLoop runs before the model stops ticking.
MaxBatches == 2

\* ------------------------------------------------------------ environment
NL == "\n"
\* The bytes target files are written with: a letter and the line separator.
\* They spell the host a, which resolves, and aa, aaa, ..., which do not.
Bytes == {"a", NL}
FileContents == UNION {[1..n -> Bytes] : n \in 0..MaxFileLen}

\* The files read() is given when it is checked on its own: two letters, so
\* that two lines can differ and their order shows, and up to MaxWideLen
\* bytes, so that a blank line can stand between two entries.
MaxWideLen == 4
WideBytes == {"a", "b", NL}
WideFileContents == UNION {[1..n -> WideBytes] : n \in 0..MaxWideLen}

\* What os.Stat and ioutil.ReadFile can return besides a value.
StatErr == [err |-> TRUE, mtime |-> 0]
ReadErr == [err |-> TRUE, data |-> <<>>]
StatResults == {StatErr} \cup {[err |-> FALSE, mtime |-> u] : u \in 1..MaxMtime}
ReadResults == {ReadErr} \cup {[err |-> FALSE, data |-> d] : d \in FileContents}
WideReadResults ==
  {ReadErr} \cup {[err |-> FALSE, data |-> d] : d \in WideFileContents}

\* The resolver of the environment.  ping asks it anew for every entry of
\* every batch, and nothing binds its answers to each other: a name may
\* resolve now and fail later, two names may share an address, one name may
\* get two addresses.  ResolveIPAddr(host) is what it may answer for host.
NilAddr == "nil"
IPAddrs == {"10.0.0.1", "10.0.0.2"}
ResolveIPAddr(host) ==
  {[ra |-> a, err |-> FALSE] : a \in IPAddrs} \cup {[ra |-> NilAddr, err |-> TRUE]}

\* (*net.IPAddr).String(): a nil pointer prints as "<nil>".
String(ra) == IF ra = NilAddr THEN "<nil>" ELSE ra

\* The host lists ping is called with when it is checked on its own
\* (MaxHosts: the longest of them).
MaxHosts == 3
HostNames == {<<"a">>, <<"b">>}
HostLists == UNION {[1..n -> HostNames] : n \in 0..MaxHosts}

\* Round-trip times the transport reports, in nanoseconds.
RTTs == {1500000}

\* ------------------------------------------------------------- variables
VARIABLES
  pc,           \* position of the pingLoop goroutine
  t,            \* the targetList of pingLoop: [items, mtime]
  fi,           \* read(): result of the last os.Stat
  b,            \* read(): bytes returned by the last successful ReadFile
                \* (kept until ping is called)
  readOutcome,  \* read(): which return of read() the last call took
  batch,        \* number of calls of ping so far
  hosts,        \* ping(): the slice it was called with
  i,            \* ping(): index of the resolve loop
  resolved,     \* what net.ResolveIPAddr answered for hosts[1..i-1]
  results,      \* ping(): map from address string to *result
  addrs,        \* the pinger's address set (p.AddIPAddr)
  runErr,       \* whether p.Run() of this batch ended with an error
  replied,      \* addresses whose reply reached OnRecv in this batch; once
                \* Run has returned, those of them that have a record
  todo,         \* ping(): keys the deferred range loop has not visited
  cur,          \* metrics.update(): its arguments [host, ok, rtt]
  pre,          \* metrics.update(): the host's series when it was entered
  calls,        \* calls of metrics.update made by this batch, in order,
                \* each with the key of the record it was made for
  m0,           \* pingMetrics as it was when this batch started
  pingMetrics,  \* the four vectors: [total, ok, ng, rtt]
  ticker        \* the channel of time.Tick: "none" before it is made, then
                \* "empty" or "full" (it buffers one tick and drops the rest)

vars == <<pc, t, fi, b, readOutcome, batch, hosts, i, resolved, results, addrs, runErr,
          replied, todo, cur, pre, calls, m0, pingMetrics, ticker>>

readVars == <<fi, b, readOutcome>>
pingVars == <<hosts, i, resolved, results, addrs, runErr, replied, todo, calls, m0>>
updateVars == <<cur, pre>>

\* ---------------------------------------------------------- targetList.read
\* Variant of After: an equal time counts as newer.
After_orEqual(u, v) == u >= v

\* mtime.After(t.mtime)
After(u, v) == u > v

\* bytes.Split(s, sep) for a one-byte separator.
RECURSIVE Split(_, _)
Split(s, sep) ==
  IF \A k \in 1..Len(s) : s[k] # sep
  THEN <<s>>
  ELSE LET k == CHOOSE k \in 1..Len(s) :
                  s[k] = sep /\ \A j \in 1..(k - 1) : s[j] # sep
       IN <<SubSeq(s, 1, k - 1)>> \o Split(SubSeq(s, k + 1, Len(s)), sep)

\* Variant of appendItems: each item is put in front of those before it.
RECURSIVE appendItems_reversed(_, _)
appendItems_reversed(items, parts) ==
  IF parts = <<>> THEN items
  ELSE appendItems_reversed(IF Len(Head(parts)) > 0
                            THEN <<Head(parts)>> \o items
                            ELSE items,
                            Tail(parts))

\* for _, item := range parts { if len(item) > 0 { items = append(items, item) } }
RECURSIVE appendItems(_, _)
appendItems(items, parts) ==
  IF parts = <<>> THEN items
  ELSE appendItems(IF Len(Head(parts)) > 0 THEN Append(items, Head(parts))
                   ELSE items,
                   Tail(parts))

\* Which return of read() is taken (st: os.Stat result, rd: ReadFile result).
readReturn(tl, st, rd) ==
  IF st.err THEN "stat_err"
  ELSE IF ~After(st.mtime, tl.mtime) THEN "not_newer"
  ELSE IF rd.err THEN "read_err"
  ELSE "updated"

\* Variant of readList: the list is truncated before ReadFile's error is
\* looked at.
readList_truncFirst(tl, st, rd) ==
  IF st.err THEN tl
  ELSE IF ~After(st.mtime, tl.mtime) THEN tl
  ELSE IF rd.err THEN [items |-> SubSeq(tl.items, 1, 0), mtime |-> st.mtime]
  ELSE [items |-> appendItems(SubSeq(tl.items, 1, 0), Split(rd.data, NL)),
        mtime |-> st.mtime]

\* Variant of readList: the new lines are appended to the old list.
readList_keepOld(tl, st, rd) ==
  IF st.err THEN tl
  ELSE IF ~After(st.mtime, tl.mtime) THEN tl
  ELSE IF rd.err THEN [tl EXCEPT !.mtime = st.mtime]
  ELSE [items |-> appendItems(tl.items, Split(rd.data, NL)),
        mtime |-> st.mtime]

\* The targetList after read() saw stat result st and ReadFile result rd.
readList(tl, st, rd) ==
  IF st.err THEN tl
  ELSE IF ~After(st.mtime, tl.mtime) THEN tl
  ELSE IF rd.err THEN [tl EXCEPT !.mtime = st.mtime]
  ELSE [items |-> appendItems(SubSeq(tl.items, 1, 0), Split(rd.data, NL)),
        mtime |-> st.mtime]

\* t.read() in pingLoop, lines 121 and 124, when ioutil.ReadFile may return
\* any of rds.
readFrom(rds) ==
  /\ pc = "read"
  /\ \E st \in StatResults, rd \in rds :
       /\ t' = readList(t, st, rd)
       /\ readOutcome' = readReturn(t, st, rd)
       /\ fi' = st
       /\ b' = IF readReturn(t, st, rd) = "updated" THEN rd.data ELSE b
  /\ pc' = "ping"
  /\ UNCHANGED <<ticker, batch, pingVars, updateVars, pingMetrics>>

\* t.read() on the files of the whole program's model
read == readFrom(ReadResults)

\* t.read() on the wider files
read_wide == readFrom(WideReadResults)

\* ------------------------------------------------------------ metrics.update
\* A vector is a function from the labels created so far to their values.
NoSeries == <<>>

\* The value of the series vec.WithLabelValues(host) returns: the one the
\* vector has for the label, or a new one at zero.
WithLabelValues(vec, host, zero) ==
  IF host \in DOMAIN vec THEN vec[host] ELSE zero

\* The vector after vec.WithLabelValues(host): the series of the label exists
\* from this call on, before anything is written to it.
GetOrCreate(vec, host, zero) ==
  [h \in DOMAIN vec \cup {host} |-> WithLabelValues(vec, h, zero)]

\* Variant of Inc: the vector keeps only the series it incremented.
Inc_only(vec, host) ==
  [h \in {host} |-> WithLabelValues(vec, host, 0) + 1]

\* vec.WithLabelValues(host).Inc()
Inc(vec, host) ==
  [h \in DOMAIN vec \cup {host} |->
     IF h = host THEN WithLabelValues(vec, host, 0) + 1 ELSE vec[h]]

\* vec.WithLabelValues(host).Set(v)
Set(vec, host, v) ==
  [h \in DOMAIN vec \cup {host} |-> IF h = host THEN v ELSE vec[h]]

\* A gauge value: whole milliseconds and the remaining millionths of one.
NsPerMs == 1000000
Float(whole, millionths) == [whole |-> whole, millionths |-> millionths]
\* rtt.Seconds() * 1000 (the float64 result is exact for the values of RTTs)
Milliseconds(d) == Float(d \div NsPerMs, d % NsPerMs)

\* Variant of updateTotal: the attempt is not counted.
updateTotal_skip(m, host) == m

\* line 71
updateTotal(m, host) == [m EXCEPT !.total = Inc(@, host)]

\* Variant of updateCount: the two branches are swapped.
updateCount_swapped(m, host, ok) ==
  IF ok THEN [m EXCEPT !.ng = Inc(@, host)]
        ELSE [m EXCEPT !.ok = Inc(@, host)]

\* lines 72-73 and 75-76
updateCount(m, host, ok) ==
  IF ok THEN [m EXCEPT !.ok = Inc(@, host)]
        ELSE [m EXCEPT !.ng = Inc(@, host)]

\* Variant of updateRtt: a failure leaves the gauge as it was.
updateRtt_stale(m, host, ok, rtt) ==
  IF ok THEN [m EXCEPT !.rtt = Set(@, host, Milliseconds(rtt))]
        ELSE m

\* lines 74 and 77
updateRtt(m, host, ok, rtt) ==
  IF ok THEN [m EXCEPT !.rtt = Set(@, host, Milliseconds(rtt))]
        ELSE [m EXCEPT !.rtt = Set(@, host, Float(0, 0))]

\* What a scrape shows of one series: <<v>>, or <<>> when it was never created.
Shown(vec, host) == IF host \in DOMAIN vec THEN <<vec[host]>> ELSE <<>>

\* The host's four series as a scrape shows them.
Series(m, host) ==
  [total |-> Shown(m.total, host), ok |-> Shown(m.ok, host),
   ng |-> Shown(m.ng, host), rtt |-> Shown(m.rtt, host)]

\* Each of lines 71, 73/76 and 74/77 is two calls: WithLabelValues, which
\* makes the series if the label is new, and then Inc or Set on it.  The HTTP
\* handler (line 158) may serve a scrape between the two, and sees the new
\* series at zero.  When the label has its series already, WithLabelValues
\* only looks it up and changes nothing a scrape can see: the lookup and the
\* write are then one step.

\* m.total.WithLabelValues(host), line 71
total_WithLabelValues ==
  /\ pc = "update_total"
  /\ cur.host \notin DOMAIN pingMetrics.total
  /\ pingMetrics' = [pingMetrics EXCEPT !.total = GetOrCreate(@, cur.host, 0)]
  /\ pc' = "total_Inc"
  /\ UNCHANGED <<ticker, t, readVars, batch, pingVars, updateVars>>

\* .Inc(), line 71
update_total ==
  /\ \/ pc = "total_Inc"
     \/ pc = "update_total" /\ cur.host \in DOMAIN pingMetrics.total
  /\ pingMetrics' = updateTotal(pingMetrics, cur.host)
  /\ pc' = "update_count"
  /\ UNCHANGED <<ticker, t, readVars, batch, pingVars, updateVars>>

\* m.ok.WithLabelValues(host), line 73, or m.ng.WithLabelValues(host), line 76
count_WithLabelValues ==
  /\ pc = "update_count"
  /\ cur.host \notin DOMAIN (IF cur.ok THEN pingMetrics.ok ELSE pingMetrics.ng)
  /\ pingMetrics' =
       IF cur.ok THEN [pingMetrics EXCEPT !.ok = GetOrCreate(@, cur.host, 0)]
                 ELSE [pingMetrics EXCEPT !.ng = GetOrCreate(@, cur.host, 0)]
  /\ pc' = "count_Inc"
  /\ UNCHANGED <<ticker, t, readVars, batch, pingVars, updateVars>>

\* .Inc(), line 73 or 76
update_count ==
  /\ \/ pc = "count_Inc"
     \/ /\ pc = "update_count"
        /\ cur.host \in DOMAIN (IF cur.ok THEN pingMetrics.ok ELSE pingMetrics.ng)
  /\ pingMetrics' = updateCount(pingMetrics, cur.host, cur.ok)
  /\ pc' = "update_rtt"
  /\ UNCHANGED <<ticker, t, readVars, batch, pingVars, updateVars>>

\* m.rtt.WithLabelValues(host), line 74 or 77
rtt_WithLabelValues ==
  /\ pc = "update_rtt"
  /\ cur.host \notin DOMAIN pingMetrics.rtt
  /\ pingMetrics' =
       [pingMetrics EXCEPT !.rtt = GetOrCreate(@, cur.host, Float(0, 0))]
  /\ pc' = "rtt_Set"
  /\ UNCHANGED <<ticker, t, readVars, batch, pingVars, updateVars>>

\* .Set(...), line 74 or 77
update_rtt ==
  /\ \/ pc = "rtt_Set"
     \/ pc = "update_rtt" /\ cur.host \in DOMAIN pingMetrics.rtt
  /\ pingMetrics' = updateRtt(pingMetrics, cur.host, cur.ok, cur.rtt)
  /\ pc' = "update_done"
  /\ UNCHANGED <<ticker, t, readVars, batch, pingVars, updateVars>>

\* ---------------------------------------------------------------------- ping
NoResults == <<>>
\* cur when no call of update is in progress
NoCall == [host |-> <<>>, ok |-> FALSE, rtt |-> 0]

\* Variant of register: the record is created already marked as answered.
register_marked(res, key, host) ==
  [k \in DOMAIN res \cup {key} |->
     IF k = key THEN [host |-> host, ok |-> TRUE, rtt |-> 0] ELSE res[k]]

\* results[ra.String()] = &result{host: host}
register(res, key, host) ==
  [k \in DOMAIN res \cup {key} |->
     IF k = key THEN [host |-> host, ok |-> FALSE, rtt |-> 0] ELSE res[k]]

\* Variant of OnRecv: no test that the address is a key of the map.
OnRecv_insert(res, addr, rtt) ==
  [k \in DOMAIN res \cup {String(addr)} |->
     IF k = String(addr)
     THEN [host |-> IF k \in DOMAIN res THEN res[k].host ELSE <<>>,
           ok |-> TRUE, rtt |-> rtt]
     ELSE res[k]]

\* p.OnRecv, lines 133-138
OnRecv(res, addr, rtt) ==
  IF String(addr) \in DOMAIN res
  THEN [res EXCEPT ![String(addr)] = [@ EXCEPT !.ok = TRUE, !.rtt = rtt]]
  ELSE res

\* p.AddIPAddr(ra) when err == nil, lines 143-145
submit(as, r) == IF r.err THEN as ELSE as \cup {r.ra}

\* lines 130-139: a fresh map and a fresh pinger
ping_start ==
  /\ pc = "ping"
  /\ hosts' = t.items
  /\ results' = NoResults
  /\ addrs' = {}
  /\ i' = 1
  /\ resolved' = <<>>
  /\ batch' = batch + 1
  /\ runErr' = FALSE
  /\ replied' = {}
  /\ todo' = {}
  /\ calls' = <<>>
  /\ m0' = pingMetrics
  /\ b' = <<>>
  /\ fi' = StatErr
  /\ readOutcome' = "none"
  /\ pc' = "resolve"
  /\ UNCHANGED <<ticker, t, updateVars, pingMetrics>>

\* one iteration of the loop of lines 140-146
resolve ==
  /\ pc = "resolve"
  /\ i <= Len(hosts)
  /\ \E r \in ResolveIPAddr(hosts[i]) :
       /\ results' = register(results, String(r.ra), hosts[i])
       /\ addrs' = submit(addrs, r)
       /\ resolved' = Append(resolved, r)
  /\ i' = i + 1
  /\ UNCHANGED <<ticker, pc, t, readVars, batch, hosts, runErr, replied, todo, calls,
                 m0, updateVars, pingMetrics>>

\* p.Run() is called, line 152
run_start ==
  /\ pc = "resolve"
  /\ i > Len(hosts)
  /\ pc' = "running"
  /\ UNCHANGED <<ticker, t, readVars, batch, pingVars, updateVars, pingMetrics>>

\* Variant of run_error: ping returns the error before the updates are made.
run_error_skip ==
  /\ pc = "running"
  /\ runErr' = TRUE
  /\ todo' = {}
  /\ pc' = "defer"
  /\ replied' = {a \in replied : String(a) \in DOMAIN results}
  /\ UNCHANGED <<ticker, t, readVars, batch, hosts, i, resolved, results, addrs, calls,
                 m0, updateVars, pingMetrics>>

\* p.Run() returns an error: at once (the socket cannot be opened) or after
\* replies were handled (sending or receiving failed)
run_error ==
  /\ pc = "running"
  /\ runErr' = TRUE
  /\ todo' = DOMAIN results
  /\ pc' = "defer"
  /\ replied' = {a \in replied : String(a) \in DOMAIN results}
  /\ UNCHANGED <<ticker, t, readVars, batch, hosts, i, resolved, results, addrs, calls,
                 m0, updateVars, pingMetrics>>

\* the transport delivers a reply to the handler while Run is blocked
on_recv ==
  /\ pc = "running"
  /\ \E addr \in IPAddrs, rtt \in RTTs :
       /\ results' = OnRecv(results, addr, rtt)
       /\ replied' = replied \cup {addr}
  /\ UNCHANGED <<ticker, pc, t, readVars, batch, hosts, i, resolved, addrs, runErr, todo, calls,
                 m0, updateVars, pingMetrics>>

\* MaxRTT has elapsed: p.Run() returns nil
run_return ==
  /\ pc = "running"
  /\ todo' = DOMAIN results
  /\ pc' = "defer"
  /\ replied' = {a \in replied : String(a) \in DOMAIN results}
  /\ UNCHANGED <<ticker, t, readVars, batch, hosts, i, resolved, results, addrs, runErr,
                 calls, m0, updateVars, pingMetrics>>

\* the deferred loop of lines 147-151 picks the next map entry, in any order,
\* and enters pingMetrics.update
defer_next ==
  /\ pc \in {"defer", "update_done"}
  /\ \E k \in todo :
       /\ cur' = results[k]
       /\ pre' = Series(pingMetrics, results[k].host)
       /\ calls' = Append(calls, [key |-> k, host |-> results[k].host,
                                   ok |-> results[k].ok, rtt |-> results[k].rtt])
       /\ todo' = todo \ {k}
  /\ pc' = "update_total"
  /\ UNCHANGED <<ticker, t, readVars, batch, hosts, i, resolved, results, addrs, runErr, replied,
                 m0, pingMetrics>>

\* the deferred loop is over and ping returns to pingLoop: its map, its pinger
\* and the other locals of the call are gone
ping_return ==
  /\ pc \in {"defer", "update_done"}
  /\ todo = {}
  /\ results' = NoResults
  /\ addrs' = {}
  /\ i' = 1
  /\ resolved' = <<>>
  /\ runErr' = FALSE
  /\ replied' = {}
  /\ calls' = <<>>
  /\ cur' = NoCall
  /\ pre' = Series(pingMetrics, NoCall.host)
  /\ m0' = pingMetrics
  /\ ticker' = IF ticker = "none" THEN "empty" ELSE ticker
  /\ pc' = "tick"
  /\ UNCHANGED <<t, readVars, batch, hosts, todo, pingMetrics>>

\* ------------------------------------------------------------------ pingLoop
\* The interval has passed again: the runtime puts a tick in the channel, or
\* drops it when the channel still holds one.  It does so whatever pingLoop is
\* doing, once time.Tick was called (line 123, after the first ping).
ticker_fire ==
  /\ ticker = "empty"
  /\ ticker' = "full"
  /\ UNCHANGED <<pc, t, readVars, batch, pingVars, updateVars, pingMetrics>>

\* Variant of tick: the loop body calls ping without t.read().
tick_noRead ==
  /\ pc = "tick"
  /\ ticker = "full"
  /\ batch < MaxBatches
  /\ ticker' = "empty"
  /\ pc' = "ping"
  /\ UNCHANGED <<t, readVars, batch, pingVars, updateVars, pingMetrics>>

\* Variant of tick: a tick is served when it fires, also while the batch of the
\* tick before is still in flight.
tick_overlap ==
  /\ pc \notin {"read", "ping"}
  /\ ticker = "full"
  /\ batch <= MaxBatches
  /\ ticker' = "empty"
  /\ pc' = "read"
  /\ UNCHANGED <<t, readVars, batch, pingVars, updateVars, pingMetrics>>

\* range time.Tick(*pingInterval), line 123: pingLoop receives a tick
tick ==
  /\ pc = "tick"
  /\ ticker = "full"
  /\ batch < MaxBatches
  /\ ticker' = "empty"
  /\ pc' = "read"
  /\ UNCHANGED <<t, readVars, batch, pingVars, updateVars, pingMetrics>>

NoMetrics == [total |-> NoSeries, ok |-> NoSeries, ng |-> NoSeries,
              rtt |-> NoSeries]

Init ==
  /\ pc = "read"
  /\ t = [items |-> <<>>, mtime |-> 0]
  /\ fi = StatErr
  /\ b = <<>>
  /\ readOutcome = "none"
  /\ batch = 0
  /\ hosts = <<>>
  /\ i = 1
  /\ resolved = <<>>
  /\ results = NoResults
  /\ addrs = {}
  /\ runErr = FALSE
  /\ replied = {}
  /\ todo = {}
  /\ cur = NoCall
  /\ pre = Series(NoMetrics, NoCall.host)
  /\ calls = <<>>
  /\ m0 = NoMetrics
  /\ pingMetrics = NoMetrics
  /\ ticker = "none"

Next ==
  \/ read
  \/ ping_start
  \/ resolve
  \/ run_start
  \/ run_error
  \/ on_recv
  \/ run_return
  \/ defer_next
  \/ total_WithLabelValues
  \/ update_total
  \/ count_WithLabelValues
  \/ update_count
  \/ rtt_WithLabelValues
  \/ update_rtt
  \/ ping_return
  \/ ticker_fire
  \/ tick

Spec == Init /\ [][Next]_vars

\* The steps the goroutine of pingLoop takes by itself, given that Run does
\* not fail.
pingLoopStep ==
  \/ read
  \/ ping_start
  \/ resolve
  \/ run_start
  \/ run_return
  \/ defer_next
  \/ total_WithLabelValues
  \/ update_total
  \/ count_WithLabelValues
  \/ update_count
  \/ rtt_WithLabelValues
  \/ update_rtt
  \/ ping_return
  \/ tick

\* The vectors after a first batch over the list hs in which no name
\* resolved: one record, under "<nil>", holding the last host, reported as a
\* failure.
FirstCycleMetrics(hs) ==
  IF hs = <<>> THEN NoMetrics
  ELSE LET h == hs[Len(hs)] IN
         [total |-> Inc(NoSeries, h), ok |-> NoSeries, ng |-> Inc(NoSeries, h),
          rtt |-> Set(NoSeries, h, Float(0, 0))]

\* The second call of read() on its own: pingLoop has been through one cycle
\* (a first read() of any stat result and any of the wider files, a batch in
\* which no name resolved, a tick) and calls read() again.
InitRead ==
  /\ pc = "read"
  /\ \E st \in StatResults, rd \in WideReadResults :
       t = readList([items |-> <<>>, mtime |-> 0], st, rd)
  /\ fi = StatErr
  /\ b = <<>>
  /\ readOutcome = "none"
  /\ batch = 1
  /\ hosts = t.items
  /\ i = 1
  /\ resolved = <<>>
  /\ results = NoResults
  /\ addrs = {}
  /\ runErr = FALSE
  /\ replied = {}
  /\ todo = {}
  /\ cur = NoCall
  /\ pingMetrics = FirstCycleMetrics(t.items)
  /\ pre = Series(pingMetrics, NoCall.host)
  /\ calls = <<>>
  /\ m0 = pingMetrics
  /\ ticker = "empty"

NextRead == read_wide

SpecRead == InitRead /\ [][NextRead]_vars

\* One call of ping on any bounded host list, with empty vectors.
InitPing ==
  /\ pc = "ping"
  /\ \E hs \in HostLists : t = [items |-> hs, mtime |-> 1]
  /\ fi = [err |-> FALSE, mtime |-> 1]
  /\ b = <<>>
  /\ readOutcome = "updated"
  /\ batch = 0
  /\ hosts = <<>>
  /\ i = 1
  /\ resolved = <<>>
  /\ results = NoResults
  /\ addrs = {}
  /\ runErr = FALSE
  /\ replied = {}
  /\ todo = {}
  /\ cur = NoCall
  /\ pre = Series(NoMetrics, NoCall.host)
  /\ calls = <<>>
  /\ m0 = NoMetrics
  /\ pingMetrics = NoMetrics
  /\ ticker = "none"

NextPing ==
  \/ ping_start
  \/ resolve
  \/ run_start
  \/ run_error
  \/ on_recv
  \/ run_return
  \/ defer_next
  \/ total_WithLabelValues
  \/ update_total
  \/ count_WithLabelValues
  \/ update_count
  \/ rtt_WithLabelValues
  \/ update_rtt
  \/ ping_return

SpecPing == InitPing /\ [][NextPing]_vars

\* The steps of one call of ping that the goroutine and the pinger's MaxRTT
\* timer take by themselves: all but the arrival of a reply and a failure of
\* Run.
pingStep ==
  \/ ping_start
  \/ resolve
  \/ run_start
  \/ run_return
  \/ defer_next
  \/ total_WithLabelValues
  \/ update_total
  \/ count_WithLabelValues
  \/ update_count
  \/ rtt_WithLabelValues
  \/ update_rtt
  \/ ping_return

\* The goroutine keeps running and the timer fires: while such a step stays
\* possible, one is taken.
FairSpecPing == SpecPing /\ WF_vars(pingStep)

\* ==================================================================== claims
\* The deferred loop of ping has visited every record: ping is returning.
BatchDone == pc \in {"defer", "update_done"} /\ todo = {}

\* The value of a counter series, zero when it was never created.
Count(vec, host) == WithLabelValues(vec, host, 0)

\* Entries of the list hs that are the host h.
Occurrences(hs, h) == {j \in 1..Len(hs) : hs[j] = h}

\* Entries of the batch's list whose address answered before the deadline.
Responding ==
  {j \in 1..Len(hosts) :
     /\ ~resolved[j].err
     /\ resolved[j].ra \in replied}

\* What the batch added to a counter series of host h.
Added(name, h) == Count(pingMetrics[name], h) - Count(m0[name], h)

\* Calls of metrics.update this batch made for the host h.
CallsFor(h) == {j \in 1..Len(calls) : calls[j].host = h}

\* Calls of metrics.update this batch made for the record under key k.
CallsOf(k) == {j \in 1..Len(calls) : calls[j].key = k}

\* Records of the batch's map that hold the host h (a name the resolver gave
\* two answers in one batch has two).
RecordsOf(h) == {k \in DOMAIN results : results[k].host = h}
Marked(h) == {k \in RecordsOf(h) : results[k].ok}
Unmarked(h) == {k \in RecordsOf(h) : ~results[k].ok}

\* The last call of metrics.update this batch made for the host h.
LastCallFor(h) == CHOOSE c \in CallsFor(h) : \A d \in CallsFor(h) : d <= c

\* What a call of metrics.update with the arguments c leaves in the gauge.
Gauge(c) == IF c.ok THEN Milliseconds(c.rtt) ELSE Float(0, 0)

\* The record under key k was reported by one call of metrics.update, with
\* the record's host, ok and rtt as arguments.
ReportedOnce(k) ==
  /\ Cardinality(CallsOf(k)) = 1
  /\ \A c \in CallsOf(k) :
       /\ calls[c].host = results[k].host
       /\ calls[c].ok = results[k].ok
       /\ calls[c].rtt = results[k].rtt

\* When the batch is over, the counters of host h have grown by the number of
\* its records (ok by the marked ones, ng by the others) and its gauge is
\* what the last call for h left.
CountedPerRecord(h) ==
  /\ Added("total", h) = Cardinality(RecordsOf(h))
  /\ Added("ok", h) = Cardinality(Marked(h))
  /\ Added("ng", h) = Cardinality(Unmarked(h))
  /\ Shown(pingMetrics.rtt, h) = <<Gauge(calls[LastCallFor(h)])>>

\* A call of metrics.update for a failure ends with the gauge of its host at 0.
FailureSetsZero ==
  (pc # "update_done" /\ pc' = "update_done" /\ ~cur.ok)
    => Shown(pingMetrics'.rtt, cur.host) = <<Float(0, 0)>>

\* C1: after one call of ping over N hosts the sink has been updated once per
\* input host: for every label, total grew by the number of its entries, ok by
\* the number of its entries that responded, ng by the number of the others.
C1_OncePerHost ==
  BatchDone =>
    /\ Len(calls) = Len(hosts)
    /\ \A j \in 1..Len(hosts) :
         LET h == hosts[j]
             n == Cardinality(Occurrences(hosts, h))
             s == Cardinality(Occurrences(hosts, h) \cap Responding)
         IN /\ Added("total", h) = n
            /\ Added("ok", h) = s
            /\ Added("ng", h) = n - s

\* C2: every host of the batch that fails to resolve is reported as a failed
\* attempt under its own label (a call update(host, false, 0), after which
\* total and ng have grown and the gauge reads 0), and no unresolved address
\* is given to the pinger.
C2_UnresolvedCounted ==
  /\ NilAddr \notin addrs
  /\ BatchDone =>
       \A j \in 1..Len(hosts) :
         resolved[j].err =>
           /\ \E c \in CallsFor(hosts[j]) : ~calls[c].ok /\ calls[c].rtt = 0
           /\ Added("total", hosts[j]) >= 1
           /\ Added("ng", hosts[j]) >= 1
           /\ Shown(pingMetrics.rtt, hosts[j]) = <<Float(0, 0)>>

\* C3: hosts that resolve to one address are probed once, and the sink is
\* updated once for each of their entries in the input list.
C3_DuplicatesReported ==
  BatchDone =>
    \A j \in 1..Len(hosts) :
      ~resolved[j].err =>
        Cardinality(CallsFor(hosts[j])) =
          Cardinality(Occurrences(hosts, hosts[j]))

\* C4: a read() that fails in ReadFile does not advance the recorded time, so
\* that the time of the file it could not read still counts as newer, and the
\* next read() that sees that time again gets to ReadFile again.
C4_ReadErrorRetried ==
  [][(pc = "read" /\ pc' = "ping" /\ readOutcome' = "read_err") =>
       /\ t'.mtime = t.mtime
       /\ After(fi'.mtime, t'.mtime)]_vars

\* C5: a read() that fails in Stat or in ReadFile leaves the target list as it
\* was, and pingLoop goes on to call ping with that list.
C5_ErrorKeepsList ==
  [][/\ (pc = "read" /\ pc' # pc /\ readOutcome' \in {"stat_err", "read_err"})
          => t'.items = t.items /\ pc' = "ping"
     /\ pc = "ping" =>
          /\ t' = t
          /\ pc' # pc => pc' = "resolve" /\ hosts' = t.items]_vars

\* the second read() has failed and ping is about to be called with the two
\* hosts the first one had read
C5_Witness ==
  /\ pc = "ping"
  /\ batch = 1
  /\ readOutcome \in {"stat_err", "read_err"}
  /\ Len(t.items) = 2
  /\ hosts = t.items

\* C6: a read() that finds a modification time equal to or older than the
\* recorded one changes neither the list nor the recorded time, whatever the
\* file holds.
C6_NotNewerNoChange ==
  [][(pc = "read" /\ ~fi'.err /\ fi'.mtime <= t.mtime) => t' = t]_vars

C6_Witness ==
  /\ pc = "ping"
  /\ batch = 1
  /\ readOutcome = "not_newer"
  /\ fi.mtime = t.mtime
  /\ t.items # <<>>

\* The maximal runs of bytes of s other than NL, in the order of s.
LineStarts(s) == {k \in 1..Len(s) : s[k] # NL /\ (k = 1 \/ s[k - 1] = NL)}
LineEnd(s, k) ==
  CHOOSE e \in k..Len(s) :
    /\ \A j \in k..e : s[j] # NL
    /\ e = Len(s) \/ s[e + 1] = NL
NthLineStart(s, n) ==
  CHOOSE k \in LineStarts(s) :
    Cardinality({j \in LineStarts(s) : j < k}) = n - 1
NonEmptyLines(s) ==
  [n \in 1..Cardinality(LineStarts(s)) |->
     SubSeq(s, NthLineStart(s, n), LineEnd(s, NthLineStart(s, n)))]

\* C7: after a read() that loaded the file, the list is exactly the non-empty
\* lines of the bytes read, in file order, and the recorded time is the one
\* Stat returned.
C7_ReloadReplacesList ==
  (pc = "ping" /\ readOutcome = "updated") =>
    /\ t.items = NonEmptyLines(b)
    /\ t.mtime = fi.mtime

\* the second load read b, a blank line and a, after a batch over a and b
C7_Witness ==
  /\ pc = "ping"
  /\ batch = 1
  /\ readOutcome = "updated"
  /\ hosts = <<<<"a">>, <<"b">>>>
  /\ b = <<"b", NL, NL, "a">>
  /\ Len(t.items) = 2

\* C8: when update(host, ok, rtt) returns, total is one more than when it was
\* entered; if ok, the ok counter is one more, ng is as it was and the gauge is
\* rtt in milliseconds; if not, ng is one more, the ok counter is as it was and
\* the gauge is zero.
Counter(shown) == IF shown = <<>> THEN 0 ELSE shown[1]
C8_Update ==
  pc = "update_done" =>
    LET now == Series(pingMetrics, cur.host) IN
      /\ now.total = <<Counter(pre.total) + 1>>
      /\ cur.ok =>
           /\ now.ok = <<Counter(pre.ok) + 1>>
           /\ now.ng = pre.ng
           /\ Len(now.rtt) = 1
           /\ now.rtt[1].whole * 1000 * 1000 + now.rtt[1].millionths = cur.rtt
           /\ now.rtt[1].millionths \in 0..999999
      /\ ~cur.ok =>
           /\ now.ng = <<Counter(pre.ng) + 1>>
           /\ now.ok = pre.ok
           /\ now.rtt = <<Float(0, 0)>>

\* a failure of a host whose gauge held the latency of an earlier success
C8_Witness ==
  /\ pc = "update_done"
  /\ ~cur.ok
  /\ pre.rtt # <<>>
  /\ pre.rtt # <<Float(0, 0)>>

\* C9: a reply handed to OnRecv for an address that is no key of the result
\* map changes neither the map nor any vector.
C9_StrayReply ==
  [][(/\ pc = "running"
      /\ replied' \ replied # {}
      /\ \A a \in replied' \ replied : String(a) \notin DOMAIN results)
       => results' = results /\ pingMetrics' = pingMetrics]_vars

C9_Witness ==
  /\ pc = "running"
  /\ results # NoResults
  /\ \E a \in replied : String(a) \notin DOMAIN results

\* C10: a batch whose Run is blocked returns, and when it has returned every
\* record never marked by a reply has been reported once, as a failure: one
\* call update(host, false, 0), which ends with the gauge of the host at zero;
\* ng of the host has grown by the number of its unmarked records and ok by
\* the number of its marked ones.
C10_DeadlineFailures ==
  /\ (pc = "running") ~> BatchDone
  /\ [](BatchDone =>
          \A k \in DOMAIN results :
            ~results[k].ok =>
              /\ ReportedOnce(k)
              /\ \A c \in CallsOf(k) : ~calls[c].ok /\ calls[c].rtt = 0
              /\ CountedPerRecord(results[k].host))
  /\ [][FailureSetsZero]_vars

\* a batch returned with one address that answered and one that timed out
C10_Witness ==
  /\ BatchDone
  /\ ~runErr
  /\ \E k \in DOMAIN results : results[k].ok
  /\ \E k \in DOMAIN results : ~results[k].ok /\ k # String(NilAddr)

\* C11 as claimed: when p.Run() ends with an error, the batch changes no
\* series of any vector.
C11_RunErrorSkipsUpdates == runErr => pingMetrics = m0

\* C11 as the code has it: when p.Run() ends with an error the deferred loop
\* still runs, so every record of the batch is reported once, as Run left it:
\* total one more; for a record a reply had marked, ok one more and the gauge
\* at its RTT; for any other, ng one more and the gauge at zero.  ping then
\* returns to pingLoop, which drops the error and waits for the next tick.
C11_RunErrorReportsFailures ==
  /\ [](runErr /\ BatchDone =>
          /\ Len(calls) = Cardinality(DOMAIN results)
          /\ \A k \in DOMAIN results :
               /\ ReportedOnce(k)
               /\ CountedPerRecord(results[k].host))
  /\ [][runErr /\ pc' # pc => (pc' = "tick" <=> BatchDone)]_vars

\* a batch of two records, one of them marked by a reply, was reported
\* although Run had failed
C11_Witness ==
  /\ runErr
  /\ BatchDone
  /\ Cardinality(DOMAIN results) = 2
  /\ Len(calls) = 2
  /\ \E k \in DOMAIN results : results[k].ok
  /\ \E k \in DOMAIN results : ~results[k].ok

\* ping is between its first statement and its return.
InBatch ==
  pc \in {"resolve", "running", "defer", "update_total", "total_Inc",
          "update_count", "count_Inc", "update_rtt", "rtt_Set", "update_done"}

\* C12: pingLoop starts with a read and a batch, without a tick (the ticker is
\* not even made yet); afterwards every cycle is: a tick is received, t.read(),
\* ping over the list as read() left it, the updates of that batch, back to
\* waiting; nothing else moves the loop, changes the list or changes a vector;
\* the loop has no terminal state: away from the ticker the goroutine always
\* has a next step, and at the ticker a tick is there or can still come.
C12_CycleOrder ==
  /\ pc = "read" /\ batch = 0 /\ ticker = "none"
  /\ [][/\ pc' # pc =>
             CASE pc = "tick" -> pc' = "read" /\ ticker = "full"
               [] pc = "read" -> pc' = "ping"
               [] pc = "ping" ->
                    pc' = "resolve" /\ hosts' = t.items /\ batch' = batch + 1
               [] OTHER -> InBatch' \/ (pc' = "tick" /\ BatchDone)
        /\ t' # t => pc = "read"
        /\ pingMetrics' # pingMetrics => InBatch /\ InBatch']_vars
  /\ [](pc # "tick" => ENABLED pingLoopStep)
  /\ [](pc = "tick" /\ batch < MaxBatches =>
          (ticker = "full" /\ ENABLED tick) \/ ENABLED ticker_fire)

\* the second cycle: a tick, a read that loaded another list, its batch done
C12_Witness ==
  /\ batch = 2
  /\ BatchDone
  /\ t.mtime = 2
  /\ Len(hosts) = 2
  /\ calls # <<>>
  /\ m0 # NoMetrics

\* C13: a batch over an empty list registers no record, gives the pinger no
\* address, calls update for nothing and leaves every vector as it was, and
\* when it is over ping returns and pingLoop waits for the next tick.
C13_EmptyBatch ==
  /\ [](InBatch /\ hosts = <<>> =>
          /\ results = NoResults
          /\ addrs = {}
          /\ calls = <<>>
          /\ pingMetrics = m0)
  /\ [](BatchDone /\ hosts = <<>> => ENABLED ping_return)
  /\ [][InBatch /\ hosts = <<>> /\ ~InBatch' => pc' = "tick"]_vars

\* the second batch of a run in which no file was ever read is over, with a
\* tick waiting
C13_Witness ==
  /\ BatchDone
  /\ batch = 2
  /\ hosts = <<>>
  /\ t.mtime = 0
  /\ ticker = "full"

\* The deferred loop is reading the result map (Run has returned).
Reading ==
  pc \in {"defer", "update_total", "total_Inc", "update_count", "count_Inc",
          "update_rtt", "rtt_Set", "update_done"}

\* C14: within a call of ping, keys enter the result map only in the resolve
\* loop, before Run; while Run is blocked the handler changes records but not
\* the set of keys; and once the deferred loop reads the map, no record
\* changes and no reply is handled until ping returns.
C14_InsertRunRead ==
  [][/\ (DOMAIN results' # DOMAIN results /\ pc # "ping" /\ pc' # "tick")
          => pc = "resolve" /\ pc' = "resolve"
     /\ pc = "running" => DOMAIN results' = DOMAIN results
     /\ (Reading /\ pc' # "tick") => results' = results /\ replied' = replied
     /\ (cur' # cur /\ pc' # "tick") => Reading /\ pc' = "update_total"]_vars

\* the deferred loop reports a record that a reply marked during Run, in a
\* batch of two records
C14_Witness ==
  /\ pc = "update_total"
  /\ cur.ok
  /\ replied # {}
  /\ Cardinality(DOMAIN results) = 2

\* The names of the three counter vectors.
CounterNames == {"total", "ok", "ng"}

\* C15: over every step (of a batch, a reload, a tick) no series of any of the
\* four vectors is removed, no counter of any label decreases, and a label
\* that is not in the list of the batch keeps all four of its series as they
\* were, whatever is done to the others.
C15_Monotonic ==
  [][/\ \A name \in CounterNames :
          /\ DOMAIN pingMetrics[name] \subseteq DOMAIN pingMetrics'[name]
          /\ \A h \in DOMAIN pingMetrics[name] :
               pingMetrics'[name][h] >= pingMetrics[name][h]
     /\ DOMAIN pingMetrics.rtt \subseteq DOMAIN pingMetrics'.rtt
     /\ \A h \in DOMAIN pingMetrics.total :
          Occurrences(hosts', h) = {} =>
            Series(pingMetrics', h) = Series(pingMetrics, h)]_vars

\* the second batch, run over a reloaded list, has updated a host while a
\* label of the first batch is no longer in the list
C15_Witness ==
  /\ batch = 2
  /\ pc = "update_done"
  /\ t.mtime = 2
  /\ \E h \in DOMAIN pingMetrics.total :
       /\ Occurrences(hosts, h) = {}
       /\ Series(pingMetrics, h) = Series(m0, h)
       /\ Series(pingMetrics, h).rtt # <<>>
  /\ pingMetrics # m0

\* C16: when the deferred loop of a batch is over, the calls of metrics.update
\* it made are in the order of the input list: of any two calls, the host of
\* the earlier one stands before the host of the later one in the list.
C16_InputOrder ==
  BatchDone =>
    \A j1 \in 1..Len(calls) : \A j2 \in 1..Len(calls) :
      j1 < j2 =>
        \E i1 \in 1..Len(hosts) : \E i2 \in 1..Len(hosts) :
          /\ i1 < i2
          /\ hosts[i1] = calls[j1].host
          /\ hosts[i2] = calls[j2].host

\* Keys of the map that are the address of a reply received in this batch.
RepliedKeys == {String(addr) : addr \in replied}

\* C17: a call of ping starts with an empty map; until Run every registered
\* record is a failure with RTT 0; a record is a success only when a reply of
\* this very batch came from its address; and when the batch is over, every
\* record without such a reply has been reported as a failure, and a host none
\* of whose records got one has no success more and its gauge at 0, whatever
\* its metrics were before the batch.
C17_FreshMap ==
  /\ (pc = "resolve" /\ i = 1) => results = NoResults
  /\ pc = "resolve" =>
       \A k \in DOMAIN results : ~results[k].ok /\ results[k].rtt = 0
  /\ InBatch => \A k \in DOMAIN results : results[k].ok <=> k \in RepliedKeys
  /\ BatchDone =>
       \A k \in DOMAIN results \ RepliedKeys :
         LET h == results[k].host IN
           /\ ReportedOnce(k)
           /\ \A c \in CallsOf(k) : ~calls[c].ok /\ calls[c].rtt = 0
           /\ Added("ng", h) = Cardinality(Unmarked(h))
           /\ Marked(h) = {} =>
                /\ Added("ok", h) = 0
                /\ Shown(pingMetrics.rtt, h) = <<Float(0, 0)>>

\* host a answered in the first batch (one success, a positive gauge) and not
\* in the second, which is over
C17_Witness ==
  /\ batch = 2
  /\ BatchDone
  /\ replied = {}
  /\ ~runErr
  /\ Count(m0.ok, <<"a">>) = 1
  /\ Shown(m0.rtt, <<"a">>) = <<Milliseconds(1500000)>>
  /\ Occurrences(hosts, <<"a">>) # {}
  /\ Count(pingMetrics.ok, <<"a">>) = 1
  /\ Shown(pingMetrics.rtt, <<"a">>) = <<Float(0, 0)>>

\* Every host label a scrape can show.
Labels ==
  DOMAIN pingMetrics.total \cup DOMAIN pingMetrics.ok \cup DOMAIN pingMetrics.ng
    \cup DOMAIN pingMetrics.rtt

\* C18: in every state, for every label, ok + ng <= total <= ok + ng + 1, and
\* total = ok + ng unless metrics.update is between its first and its second
\* increment for that very label (a series made and not yet written counts 0).
C18_CounterSum ==
  \A h \in Labels :
    LET total == Count(pingMetrics.total, h)
        done  == Count(pingMetrics.ok, h) + Count(pingMetrics.ng, h)
    IN /\ done <= total
       /\ total <= done + 1
       /\ ~(pc \in {"update_count", "count_Inc"} /\ cur.host = h)
            => total = done

\* the second update of a label has counted the attempt and not yet the outcome
C18_Witness ==
  /\ pc = "update_count"
  /\ Count(pingMetrics.total, cur.host) = 2
  /\ Count(pingMetrics.ok, cur.host) + Count(pingMetrics.ng, cur.host) = 1
  /\ Cardinality(Labels) = 2

\* C19: a batch starts only from outside a batch, and only after a read; a
\* read starts only on a tick received between two batches (or at the start);
\* while a batch is in flight the target list is not touched and the batch
\* iterates over the list as the read before it left it; a tick that fires
\* during a batch waits in the channel and starts nothing.
C19_NoOverlap ==
  /\ [](InBatch => hosts = t.items)
  /\ [][/\ batch' # batch => pc = "ping" /\ pc' = "resolve"
        /\ (pc' = "ping" /\ pc # "ping") => pc = "read"
        /\ (pc' = "read" /\ pc # "read") => pc = "tick"
        /\ InBatch => t' = t /\ hosts' = hosts /\ pc' # "read" /\ pc' # "ping"
        /\ (ticker' = "full" /\ ticker # "full") =>
             pc' = pc /\ batch' = batch /\ t' = t /\ hosts' = hosts]_vars

\* a tick has fired while the second batch, over a reloaded list, is running
C19_Witness ==
  /\ pc = "running"
  /\ batch = 2
  /\ ticker = "full"
  /\ t.mtime = 2
  /\ hosts # <<>>
  /\ replied # {}

====
